---- MODULE Spec2Model ----
(***************************************************************************)
(* Model of the asynchronous-resource core of react-control-flow:          *)
(*   - src/src/models/Resource.ts: createResource, getResourceStateByData, *)
(*     nextResource, the accessor a resource is when called, and the       *)
(*     promise helpers renew / resolve / reject, working on a promise      *)
(*     registry (IResourceStorage);                                        *)
(*   - useAsyncState (set / asynHandler / mount effect), the hook that     *)
(*     guards a state against stale promise settlements;                   *)
(*   - useResourceReducer and useResource, whose code is not part of the   *)
(*     sources: the reducer is modelled from its tests, the hook from the  *)
(*     README, both on top of nextResource.                                *)
(* JavaScript values are modelled by strings; promises by their identity   *)
(* (a position in the table of allocated promises).                        *)
(***************************************************************************)
EXTENDS Integers, Sequences, FiniteSets, TLC

\* Bound: how many promise objects may be allocated in one behaviour.
MaxPromises == 4

\* ------------------------------------------------------------------------
\* JavaScript values
\* ------------------------------------------------------------------------
UNDEFINED == "undefined"
NULL == "null"
\* "false" stands for the falsy, non-nullish values (false, 0, ""), which the
\* code never tells apart; "x" for the truthy ones.
JSVals == {UNDEFINED, NULL, "false", "x"}
\* The argument of createResource may also be a promise.
PROMISE == "promise"

\* ToBoolean(v), as in `if (i.data)`.
Truthy(v) == v \notin {UNDEFINED, NULL, "false"}
\* v == null  (loose equality: null or undefined).
Nullish(v) == v \in {UNDEFINED, NULL}

Storages == {"default", "custom"}

VARIABLES
    res,             \* the snapshot returned by the last operation
    prev,            \* the snapshot the last nextResource was applied to
    op,              \* the last operation and its arguments
    defaultStorage,  \* promises registered in the module-level defaultStorage
    customStorage,   \* promises registered in a caller-supplied storage
    promises,        \* every promise allocated so far: status, value, calls
    got,             \* what calling the snapshot as a function did, if called
    \* ---- useAsyncState ----
    state,           \* the AsyncState held by the reducer
    lastPrms,        \* lastPrms.current
    ext,             \* the promises the caller passes to set(): status, value
    handlers,        \* per promise, the asynHandler calls still awaiting it
    phase,           \* "rendered", "mounted" or "unmounted"
    nsets,           \* how many times set() was called
    lastIssued,      \* the promise most recently handed to the hook
    shown,           \* the promise whose settlement `state` reflects
    aop,             \* the last hook operation and what it did
    \* ---- useResource ----
    fetches,         \* the fetcher calls: status, value, signal, handled
    current,         \* the fetcher call issued most recently, if it counts
    live,            \* whether the component is still mounted
    uop              \* the last useResource operation and what it did

resVars == <<res, prev, op, defaultStorage, customStorage, promises, got>>

asyncVars == <<state, lastPrms, ext, handlers, phase, nsets, lastIssued,
               shown, aop>>

useVars == <<fetches, current, live, uop>>

vars == <<res, prev, op, defaultStorage, customStorage, promises, got,
          state, lastPrms, ext, handlers, phase, nsets, lastIssued, shown, aop,
          fetches, current, live, uop>>

\* No resource object (before the first createResource).
NoRes ==
    [data |-> UNDEFINED, loading |-> FALSE, error |-> UNDEFINED,
     latest |-> UNDEFINED, state |-> "none", promise |-> 0]

\* ------------------------------------------------------------------------
\* Promises and the registry.  A "machine" m carries the heap the functions
\* of Resource.ts work on: m.def / m.cus (the two registries), m.prm (the
\* promise table), m.r (the resource object being built) and m.t (the
\* resource object handed to nextResource as its target).
\* ------------------------------------------------------------------------

\* new Promise((resolve, reject) => ...): a fresh pending promise.
NewPromise(m) ==
    [m EXCEPT !.prm = Append(@, [status |-> "pending", value |-> UNDEFINED,
                                 calls |-> 0]),
              !.r.promise = Len(m.prm) + 1]

\* Promise.resolve(data): a fresh promise, already resolved, without controls.
PromiseResolve(m, v) ==
    [m EXCEPT !.prm = Append(@, [status |-> "resolved", value |-> v,
                                 calls |-> 0]),
              !.r.promise = Len(m.prm) + 1]

\* Invoking a control (resolve or reject) of promise p: only the first
\* invocation settles the promise; every invocation is counted.
CallControl(m, p, kind, v) ==
    [m EXCEPT !.prm[p] =
        IF @.status = "pending"
        THEN [status |-> kind, value |-> v, calls |-> @.calls + 1]
        ELSE [@ EXCEPT !.calls = @ + 1]]

StorageHas(m, sto, p) == IF sto = "default" THEN p \in m.def ELSE p \in m.cus

StorageSet(m, sto, p) ==
    IF sto = "default" THEN [m EXCEPT !.def = @ \cup {p}]
    ELSE [m EXCEPT !.cus = @ \cup {p}]

StorageDelete(m, sto, p) ==
    IF sto = "default" THEN [m EXCEPT !.def = @ \ {p}]
    ELSE [m EXCEPT !.cus = @ \ {p}]

\* ------------------------------------------------------------------------
\* Resource.ts
\* ------------------------------------------------------------------------

getResourceStateByData(i) ==
    IF i.data # UNDEFINED /\ i.loading THEN "refreshing"
    ELSE IF i.loading THEN "pending"
    ELSE IF i.error # UNDEFINED THEN "errored"
    ELSE IF Truthy(i.data) THEN "ready"
    ELSE "unresolved"

\* renew() that forgets storage.set(promise, controls).
renew_Unregistered(m, sto) ==
    LET m1 == IF m.r.promise # 0 THEN StorageDelete(m, sto, m.r.promise) ELSE m
    IN  NewPromise(m1)

renew(m, sto) ==
    LET m1 == IF m.r.promise # 0 THEN StorageDelete(m, sto, m.r.promise) ELSE m
        m2 == NewPromise(m1)
    IN  StorageSet(m2, sto, m2.r.promise)

\* resolve() that forgets storage.delete(res.promise).
resolve_KeepEntry(m, sto) ==
    IF m.r.promise = 0 THEN m
    ELSE IF StorageHas(m, sto, m.r.promise)
         THEN CallControl(m, m.r.promise, "resolved", m.r.data)
         ELSE m

resolve(m, sto) ==
    IF m.r.promise = 0 THEN m
    ELSE LET p == m.r.promise
             m1 == IF StorageHas(m, sto, p)
                   THEN CallControl(m, p, "resolved", m.r.data)
                   ELSE m
         IN  StorageDelete(m1, sto, p)

reject(m, sto) ==
    IF m.r.promise = 0 THEN m
    ELSE LET p == m.r.promise
             m1 == IF StorageHas(m, sto, p)
                   THEN CallControl(m, p, "rejected", m.r.data)
                   ELSE m
         IN  StorageDelete(m1, sto, p)

\* The outcome of calling a resource: it throws a promise, throws an error
\* or returns its data.
NoCall == [what |-> "none", promise |-> 0, value |-> UNDEFINED]
\* The promise made on the spot by Promise.reject(new Error(...)).
RejectedPromise == -1

\* The accessor looking at the error before the loading flag.
accessor_ErrorFirst(r) ==
    IF Truthy(r.error)
    THEN [what |-> "throws error", promise |-> 0, value |-> r.error]
    ELSE IF r.loading
    THEN [what |-> "throws promise", promise |-> r.promise, value |-> UNDEFINED]
    ELSE [what |-> "returns", promise |-> 0, value |-> r.data]

\* res(): the function a resource is.
accessor(r) ==
    IF r.loading
    THEN IF r.promise = 0
         THEN [what |-> "throws promise", promise |-> RejectedPromise,
               value |-> UNDEFINED]
         ELSE [what |-> "throws promise", promise |-> r.promise,
               value |-> UNDEFINED]
    ELSE IF Truthy(r.error)
    THEN [what |-> "throws error", promise |-> 0, value |-> r.error]
    ELSE [what |-> "returns", promise |-> 0, value |-> r.data]

\* createResource(data, storage); `data` is a JS value or PROMISE.
createResource(m, data, sto) ==
    LET m0 == [m EXCEPT !.r = [NoRes EXCEPT !.state = "unset"]]
        m1 == IF data = PROMISE
              THEN renew([m0 EXCEPT !.r.data = UNDEFINED, !.r.loading = TRUE], sto)
              ELSE LET m0d == [m0 EXCEPT !.r.data = data, !.r.loading = FALSE]
                   IN  IF data # UNDEFINED THEN PromiseResolve(m0d, data)
                       ELSE renew(m0d, sto)
        m2 == [m1 EXCEPT !.r.error = UNDEFINED, !.r.latest = UNDEFINED]
    IN  [m2 EXCEPT !.r.state = getResourceStateByData(m2.r)]

\* nextResource() that keeps the target's data when the patch carries none
\* (result.data = data.data ?? target.data).
nextResource_KeepData(m, target, patch, sto) ==
    LET m0 == createResource(m, UNDEFINED, "default")
        m1 == [m0 EXCEPT !.r.data = IF patch.data = UNDEFINED THEN target.data
                                    ELSE patch.data,
                         !.r.loading = patch.loading,
                         !.r.error = patch.error]
        m2 == IF ~Nullish(m1.r.data) THEN [m1 EXCEPT !.r.latest = m1.r.data]
              ELSE m1
        m3 == [m2 EXCEPT !.r.state = getResourceStateByData(m2.r)]
    IN  IF target.loading # m3.r.loading
        THEN IF m3.r.loading THEN renew(m3, sto)
             ELSE IF m3.r.error # UNDEFINED THEN reject(m3, sto)
             ELSE resolve(m3, sto)
        ELSE [m3 EXCEPT !.r.promise = target.promise]

\* nextResource() that, when loading stays false, also settles the promise it
\* reuses, through controls kept with the snapshot instead of the registry.
nextResource_SettleOnUpdate(m, target, patch, sto) ==
    LET m0 == createResource(m, UNDEFINED, "default")
        m1 == [m0 EXCEPT !.r.data = patch.data,
                         !.r.loading = patch.loading,
                         !.r.error = patch.error]
        m2 == IF ~Nullish(m1.r.data) THEN [m1 EXCEPT !.r.latest = m1.r.data]
              ELSE m1
        m3 == [m2 EXCEPT !.r.state = getResourceStateByData(m2.r)]
    IN  IF target.loading # m3.r.loading
        THEN IF m3.r.loading THEN renew(m3, sto)
             ELSE IF m3.r.error # UNDEFINED THEN reject(m3, sto)
             ELSE resolve(m3, sto)
        ELSE LET m4 == [m3 EXCEPT !.r.promise = target.promise]
             IN  IF m4.r.loading THEN m4
                 ELSE IF m4.r.error # UNDEFINED
                      THEN CallControl(m4, target.promise, "rejected", m4.r.error)
                      ELSE CallControl(m4, target.promise, "resolved", m4.r.data)

\* nextResource() that leaves the state name as createResource() set it.
nextResource_StaleState(m, target, patch, sto) ==
    LET m0 == createResource(m, UNDEFINED, "default")
        m1 == [m0 EXCEPT !.r.data = patch.data,
                         !.r.loading = patch.loading,
                         !.r.error = patch.error]
        m3 == IF ~Nullish(m1.r.data) THEN [m1 EXCEPT !.r.latest = m1.r.data]
              ELSE m1
    IN  IF target.loading # m3.r.loading
        THEN IF m3.r.loading THEN renew(m3, sto)
             ELSE IF m3.r.error # UNDEFINED THEN reject(m3, sto)
             ELSE resolve(m3, sto)
        ELSE [m3 EXCEPT !.r.promise = target.promise]

\* nextResource() that also writes the patch into its target.
nextResource_InPlace(m, target, patch, sto) ==
    LET m0 == createResource(m, UNDEFINED, "default")
        m1 == [m0 EXCEPT !.r.data = patch.data,
                         !.r.loading = patch.loading,
                         !.r.error = patch.error,
                         !.t.data = patch.data,
                         !.t.loading = patch.loading,
                         !.t.error = patch.error]
        m2 == IF ~Nullish(m1.r.data) THEN [m1 EXCEPT !.r.latest = m1.r.data]
              ELSE m1
        m3 == [m2 EXCEPT !.r.state = getResourceStateByData(m2.r)]
    IN  IF target.loading # m3.r.loading
        THEN IF m3.r.loading THEN renew(m3, sto)
             ELSE IF m3.r.error # UNDEFINED THEN reject(m3, sto)
             ELSE resolve(m3, sto)
        ELSE [m3 EXCEPT !.r.promise = target.promise]

\* nextResource(target, data, storage); `patch` is the `data` argument.
nextResource(m, target, patch, sto) ==
    LET m0 == createResource(m, UNDEFINED, "default")
        m1 == [m0 EXCEPT !.r.data = patch.data,
                         !.r.loading = patch.loading,
                         !.r.error = patch.error]
        m2 == IF ~Nullish(m1.r.data) THEN [m1 EXCEPT !.r.latest = m1.r.data]
              ELSE m1
        m3 == [m2 EXCEPT !.r.state = getResourceStateByData(m2.r)]
    IN  IF target.loading # m3.r.loading
        THEN IF m3.r.loading THEN renew(m3, sto)
             ELSE IF m3.r.error # UNDEFINED THEN reject(m3, sto)
             ELSE resolve(m3, sto)
        ELSE [m3 EXCEPT !.r.promise = target.promise]

\* ------------------------------------------------------------------------
\* The state machine of one program using Resource.ts
\* ------------------------------------------------------------------------

Machine == [def |-> defaultStorage, cus |-> customStorage, prm |-> promises,
            r |-> res, t |-> res]

\* The operation's result becomes the state, while promises can be allocated.
Install(m) ==
    /\ Len(m.prm) <= MaxPromises
    /\ res' = m.r
    /\ defaultStorage' = m.def
    /\ customStorage' = m.cus
    /\ promises' = m.prm

InitResource ==
    /\ res = NoRes
    /\ prev = NoRes
    /\ op = [kind |-> "init", data |-> UNDEFINED, loading |-> FALSE,
             error |-> UNDEFINED, storage |-> "default"]
    /\ defaultStorage = {}
    /\ customStorage = {}
    /\ promises = <<>>
    /\ got = NoCall

CreateResource ==
    \E data \in JSVals \cup {PROMISE}, sto \in Storages :
        /\ Len(promises) < MaxPromises
        /\ Install(createResource(Machine, data, sto))
        /\ prev' = NoRes
        /\ got' = NoCall
        /\ op' = [kind |-> "create", data |-> data, loading |-> FALSE,
                  error |-> UNDEFINED, storage |-> sto]
        /\ UNCHANGED <<asyncVars, useVars>>

NextResource ==
    \E data \in JSVals, loading \in BOOLEAN, error \in JSVals, sto \in Storages :
        /\ res.state # "none"
        /\ Len(promises) < MaxPromises
        /\ LET out == nextResource(Machine, res,
                     [data |-> data, loading |-> loading, error |-> error], sto)
           IN  /\ Install(out)
               /\ prev' = out.t
        /\ got' = NoCall
        /\ op' = [kind |-> "next", data |-> data, loading |-> loading,
                  error |-> error, storage |-> sto]
        /\ UNCHANGED <<asyncVars, useVars>>

\* The current snapshot is called as a function.
CallAccessor ==
    /\ res.state # "none"
    /\ got' = accessor(res)
    /\ UNCHANGED <<res, prev, op, defaultStorage, customStorage, promises>>
    /\ UNCHANGED <<asyncVars, useVars>>

\* ------------------------------------------------------------------------
\* useAsyncState
\* ------------------------------------------------------------------------

\* Bounds: the promises a caller may create, and the calls of set().
MaxCalls == 3
MaxSets == 3

\* lastPrms.current = null
NullPrm == 0
\* The "fake immediately resolved promise" of a state set synchronously.
FakePrm == -1

Calls == 1 .. MaxCalls
\* Values a caller's promise fulfils with / rejects with.
Results == {"a", "b"}
Reasons == {"e", NULL}
\* What a throwing onCompleted callback throws.
THROWN == "thrown"

\* The reducer of useAsyncStateReducer: the next AsyncState for an action.
asyncStateReducer(s, action) ==
    CASE action.type = "LOADING" ->
            [loading |-> TRUE, error |-> NULL, result |-> NULL,
             promise |-> action.payload]
      [] action.type = "RESULT" ->
            [s EXCEPT !.loading = FALSE, !.error = NULL,
                      !.result = action.payload]
      [] action.type = "ERROR" ->
            [s EXCEPT !.loading = FALSE, !.error = action.payload,
                      !.result = NULL]
      [] action.type = "SYNC-RESULT" ->
            [loading |-> FALSE, error |-> NULL, result |-> action.payload,
             promise |-> FakePrm]

\* useAsyncStateReducer(initialValue): the initial AsyncState.
initialAsyncState(initialValue) ==
    IF initialValue = PROMISE
    THEN [loading |-> TRUE, error |-> NULL, result |-> NULL, promise |-> 1]
    ELSE [loading |-> FALSE, error |-> NULL, result |-> initialValue,
          promise |-> FakePrm]

\* A hook instance h: [state, last (lastPrms.current), shown, dispatched,
\* callbacks].  dispatch(action) runs the reducer and is recorded.
dispatch(h, action, from) ==
    [h EXCEPT !.state = asyncStateReducer(@, action),
              !.dispatched = Append(@, action),
              !.shown = from]

callback(h, name, arg) ==
    [h EXCEPT !.callbacks = Append(@, [name |-> name, arg |-> arg])]

\* asynHandler() without the race check (lastPrms.current === val).
asynHandler_NoRaceCheck(h, val, outcome, throws) ==
    LET onCatch(h1, err) ==
            callback(dispatch(h1, [type |-> "ERROR", payload |-> err], val),
                     "onError", err)
    IN  IF outcome.status = "fulfilled"
        THEN LET h1 == callback(dispatch(h, [type |-> "RESULT",
                                              payload |-> outcome.value], val),
                                "onCompleted", outcome.value)
             IN  IF throws THEN onCatch(h1, THROWN) ELSE h1
        ELSE onCatch(h, outcome.value)

\* asynHandler(val) from `await val` on: val has settled as `outcome`;
\* `throws` tells whether an onCompleted callback is given that throws.
asynHandler(h, val, outcome, throws) ==
    LET onCatch(h1, err) ==
            IF h1.last = val
            THEN callback(dispatch(h1, [type |-> "ERROR", payload |-> err], val),
                          "onError", err)
            ELSE h1
    IN  IF outcome.status = "fulfilled"
        THEN IF h.last = val
             THEN LET h1 == callback(dispatch(h, [type |-> "RESULT",
                                                   payload |-> outcome.value], val),
                                     "onCompleted", outcome.value)
                  IN  IF throws THEN onCatch(h1, THROWN) ELSE h1
             ELSE h
        ELSE onCatch(h, outcome.value)

Hook == [state |-> state, last |-> lastPrms, shown |-> shown,
         dispatched |-> <<>>, callbacks |-> <<>>]

\* The operation's outcome becomes the state of the hook.  aop.quiet tells
\* that the hook is unmounted and set() was not called since.
Done(h, kind, p, threw) ==
    /\ state' = h.state
    /\ lastPrms' = h.last
    /\ shown' = h.shown
    /\ aop' = [kind |-> kind, p |-> p, dispatched |-> h.dispatched,
               callbacks |-> h.callbacks, issued |-> lastIssued,
               threw |-> threw,
               quiet |-> kind = "unmount" \/ (aop.quiet /\ kind = "handler")]

InitAsyncWith(initialValue) ==
    /\ state = initialAsyncState(initialValue)
    /\ lastPrms = initialAsyncState(initialValue).promise
    /\ ext = [p \in Calls |->
                IF initialValue = PROMISE /\ p = 1
                THEN [status |-> "pending", value |-> UNDEFINED]
                ELSE [status |-> "unused", value |-> UNDEFINED]]
    /\ handlers = [p \in Calls |-> 0]
    /\ phase = "rendered"
    /\ nsets = 0
    /\ lastIssued = IF initialValue = PROMISE THEN 1 ELSE NullPrm
    /\ shown = NullPrm
    /\ aop = [kind |-> "render", p |-> NullPrm, dispatched |-> <<>>,
              callbacks |-> <<>>, issued |-> NullPrm, threw |-> FALSE,
              quiet |-> FALSE]

\* The mount effect.
Mount ==
    /\ phase = "rendered"
    /\ phase' = "mounted"
    /\ handlers' = IF state.loading /\ state.promise \in Calls
                   THEN [handlers EXCEPT ![state.promise] = @ + 1]
                   ELSE handlers
    /\ Done([Hook EXCEPT !.last = state.promise], "mount", NullPrm, FALSE)
    /\ UNCHANGED <<ext, nsets, lastIssued>>
    /\ UNCHANGED <<resVars, useVars>>

\* A cleanup that leaves lastPrms.current as it is.
Unmount_NoCleanup ==
    /\ phase = "mounted"
    /\ phase' = "unmounted"
    /\ Done(Hook, "unmount", NullPrm, FALSE)
    /\ UNCHANGED <<ext, handlers, nsets, lastIssued>>
    /\ UNCHANGED <<resVars, useVars>>

\* The cleanup of the mount effect.
Unmount ==
    /\ phase = "mounted"
    /\ phase' = "unmounted"
    /\ Done([Hook EXCEPT !.last = NullPrm], "unmount", NullPrm, FALSE)
    /\ UNCHANGED <<ext, handlers, nsets, lastIssued>>
    /\ UNCHANGED <<resVars, useVars>>

\* set(val) with a value that is not a promise.
SetValue ==
    \E v \in Results :
        /\ phase \in {"mounted", "unmounted"}
        /\ nsets < MaxSets
        /\ nsets' = nsets + 1
        /\ Done(dispatch(Hook, [type |-> "SYNC-RESULT", payload |-> v], NullPrm),
                "set", NullPrm, FALSE)
        /\ UNCHANGED <<ext, handlers, phase, lastIssued>>
        /\ UNCHANGED <<resVars, useVars>>

\* The promises set() may be given: one seen before, or the next new one.
Known == {p \in Calls : ext[p].status # "unused"}
Fresh == {p \in Calls : ext[p].status = "unused"
                        /\ \A q \in Calls : q < p => ext[q].status # "unused"}

\* set(val) with a promise.
SetPromise ==
    \E val \in Known \cup Fresh :
        /\ phase \in {"mounted", "unmounted"}
        /\ nsets < MaxSets
        /\ nsets' = nsets + 1
        /\ ext' = IF val \in Fresh
                  THEN [ext EXCEPT ![val].status = "pending"]
                  ELSE ext
        /\ handlers' = [handlers EXCEPT ![val] = @ + 1]
        /\ lastIssued' = val
        /\ Done(dispatch([Hook EXCEPT !.last = val],
                         [type |-> "LOADING", payload |-> val], NullPrm),
                "set", val, FALSE)
        /\ UNCHANGED phase
        /\ UNCHANGED <<resVars, useVars>>

\* A caller's promise settles (the fetch behind it ends).
Settle ==
    \E p \in Calls :
        /\ ext[p].status = "pending"
        /\ \/ \E v \in Results :
                ext' = [ext EXCEPT ![p] = [status |-> "fulfilled", value |-> v]]
           \/ \E r \in Reasons :
                ext' = [ext EXCEPT ![p] = [status |-> "rejected", value |-> r]]
        /\ UNCHANGED <<state, lastPrms, handlers, phase, nsets, lastIssued,
                       shown, aop>>
        /\ UNCHANGED <<resVars, useVars>>

\* One asynHandler call resumes after its `await val`.
RunHandler ==
    \E val \in Calls, throws \in BOOLEAN :
        /\ handlers[val] > 0
        /\ ext[val].status \in {"fulfilled", "rejected"}
        /\ handlers' = [handlers EXCEPT ![val] = @ - 1]
        /\ Done(asynHandler(Hook, val, ext[val], throws), "handler", val, throws)
        /\ UNCHANGED <<ext, phase, nsets, lastIssued>>
        /\ UNCHANGED <<resVars, useVars>>

\* ------------------------------------------------------------------------
\* useResourceReducer
\* ------------------------------------------------------------------------

\* Bound: how many promise objects one reducer instance may allocate.
MaxReducerPromises == 8

\* new NullishError(cause): the error standing for a nullish rejection reason.
NullishError(cause) ==
    IF cause = NULL THEN "NullishError(null)" ELSE "NullishError(undefined)"

\* error.cause of a NullishError.
Cause(error) ==
    CASE error = "NullishError(null)" -> NULL
      [] error = "NullishError(undefined)" -> UNDEFINED

ActionTypes == {"PEND", "RESOLVE", "REJECT", "FAKE"}
NoThrow == "none"
InvalidActionType == "Error: Invalid action type"

\* The patch the reducer hands to nextResource for an action on snapshot r.
actionPatch(r, action) ==
    CASE action.type = "PEND" ->
            [data |-> r.data, loading |-> TRUE, error |-> UNDEFINED]
      [] action.type = "RESOLVE" ->
            [data |-> action.payload, loading |-> FALSE, error |-> UNDEFINED]
      [] action.type = "REJECT" ->
            [data |-> UNDEFINED, loading |-> FALSE,
             error |-> IF Nullish(action.payload)
                       THEN NullishError(action.payload)
                       ELSE action.payload]

\* The reducer handing a rejection reason to nextResource as it is.
resourceReducer_NoWrap(m, action) ==
    IF action.type \in {"PEND", "RESOLVE"}
    THEN [m |-> nextResource(m, m.r, actionPatch(m.r, action), "default"),
          thrown |-> NoThrow]
    ELSE IF action.type = "REJECT"
    THEN [m |-> nextResource(m, m.r, [data |-> UNDEFINED, loading |-> FALSE,
                                      error |-> action.payload], "default"),
          thrown |-> NoThrow]
    ELSE [m |-> m, thrown |-> InvalidActionType]

\* The reducer taking an unknown action for a no-op.
resourceReducer_IgnoreUnknown(m, action) ==
    IF action.type \in {"PEND", "RESOLVE", "REJECT"}
    THEN [m |-> nextResource(m, m.r, actionPatch(m.r, action), "default"),
          thrown |-> NoThrow]
    ELSE [m |-> m, thrown |-> NoThrow]

\* The reducer: the next snapshot for an action, or the error it throws.
resourceReducer(m, action) ==
    IF action.type \in {"PEND", "RESOLVE", "REJECT"}
    THEN [m |-> nextResource(m, m.r, actionPatch(m.r, action), "default"),
          thrown |-> NoThrow]
    ELSE [m |-> m, thrown |-> InvalidActionType]

\* The first snapshot left as createResource() makes it.
initialResource_Idle(m, initialValue) ==
    createResource(m, initialValue, "default")

\* useResourceReducer(initialValue): the snapshot of the first render, a
\* resource of the initial value that is already loading.
initialResource(m, initialValue) ==
    LET m1 == createResource(m, initialValue, "default")
    IN  nextResource(m1, m1.r, [data |-> initialValue, loading |-> TRUE,
                                error |-> UNDEFINED], "default")

InitReducerWith(initialValue) ==
    LET m == initialResource([def |-> {}, cus |-> {}, prm |-> <<>>, r |-> NoRes,
                              t |-> NoRes], initialValue)
    IN  /\ res = m.r
        /\ prev = NoRes
        /\ op = [kind |-> "init", type |-> "none", payload |-> UNDEFINED,
                 thrown |-> NoThrow, initial |-> initialValue,
                 settled |-> FALSE]
        /\ defaultStorage = m.def
        /\ customStorage = m.cus
        /\ promises = m.prm
        /\ got = NoCall

\* dispatch(action): the reducer's result becomes the state of the hook; an
\* error thrown by the reducer leaves it to the error boundary.
Dispatch ==
    \E type \in ActionTypes, payload \in JSVals :
        /\ type \in {"PEND", "FAKE"} => payload = UNDEFINED
        /\ Len(promises) + 2 <= MaxReducerPromises
        /\ LET out == resourceReducer(Machine, [type |-> type,
                                                payload |-> payload])
           IN  /\ res' = out.m.r
               /\ defaultStorage' = out.m.def
               /\ customStorage' = out.m.cus
               /\ promises' = out.m.prm
               /\ op' = [kind |-> "dispatch", type |-> type,
                         payload |-> payload, thrown |-> out.thrown,
                         initial |-> op.initial,
                         settled |-> op.settled
                                     \/ type \in {"RESOLVE", "REJECT"}]
        /\ prev' = res
        /\ UNCHANGED got
        /\ UNCHANGED <<asyncVars, useVars>>

\* ------------------------------------------------------------------------
\* useResource
\* ------------------------------------------------------------------------

\* Bound: the fetcher calls one hook instance may issue.
MaxFetches == 3

Fetches == 1 .. MaxFetches
NoFetch == 0
\* signal.reason of a signal that was not aborted.
NotAborted == "none"
ABORT_ERROR == "AbortError"
\* abort(reason): no reason, an AbortError, or something else.
AbortReasons == {UNDEFINED, ABORT_ERROR, "stop"}

\* What a settled fetcher call makes the hook do: the action it dispatches
\* and the callback it calls, both none for a call that is discarded.
Discarded == [actions |-> <<>>, callbacks |-> <<>>]

\* The settlement handler taking the rejection of an aborted call for a
\* failure.
handleSettlement_NoAbortCheck(f, isCurrent) ==
    IF ~isCurrent THEN Discarded
    ELSE IF f.status = "fulfilled"
    THEN IF f.signal # NotAborted THEN Discarded
         ELSE [actions |-> <<[type |-> "RESOLVE", payload |-> f.value]>>,
               callbacks |-> <<[name |-> "onCompleted", arg |-> f.value]>>]
    ELSE [actions |-> <<[type |-> "REJECT", payload |-> f.value]>>,
          callbacks |-> <<[name |-> "onError", arg |-> f.value]>>]

\* The settlement handler: the race guard, then the abort check.
handleSettlement(f, isCurrent) ==
    IF ~isCurrent THEN Discarded
    ELSE IF f.status = "fulfilled"
    THEN IF f.signal # NotAborted THEN Discarded
         ELSE [actions |-> <<[type |-> "RESOLVE", payload |-> f.value]>>,
               callbacks |-> <<[name |-> "onCompleted", arg |-> f.value]>>]
    ELSE IF f.signal = ABORT_ERROR /\ f.value = ABORT_ERROR THEN Discarded
    ELSE [actions |-> <<[type |-> "REJECT", payload |-> f.value]>>,
          callbacks |-> <<[name |-> "onError", arg |-> f.value]>>]

\* controller.abort(reason) on the signal of the call in flight, if any.
abortCurrent(fs, cur, reason) ==
    IF cur # NoFetch /\ fs[cur].status = "pending" /\ fs[cur].signal = NotAborted
    THEN [fs EXCEPT ![cur].signal = IF reason = UNDEFINED THEN ABORT_ERROR
                                    ELSE reason]
    ELSE fs

InitUseResource ==
    /\ fetches = [c \in Fetches |-> [status |-> "unused", value |-> UNDEFINED,
                                     signal |-> NotAborted, handled |-> FALSE]]
    /\ current = NoFetch
    /\ live = TRUE
    /\ uop = [kind |-> "render", call |-> NoFetch, dispatched |-> <<>>,
              callbacks |-> <<>>, before |-> NoRes]

\* The hook dispatches `actions` (none or one) to its reducer and calls
\* `callbacks`.
Surface(kind, call, actions, callbacks) ==
    /\ IF actions = <<>>
       THEN UNCHANGED <<res, defaultStorage, customStorage, promises>>
       ELSE LET out == resourceReducer(Machine, actions[1])
            IN  /\ res' = out.m.r
                /\ defaultStorage' = out.m.def
                /\ customStorage' = out.m.cus
                /\ promises' = out.m.prm
    /\ prev' = res
    /\ UNCHANGED <<op, got>>
    /\ uop' = [kind |-> kind, call |-> call, dispatched |-> actions,
               callbacks |-> callbacks, before |-> res]

\* The effect on mount or on a change of deps, and refetch(): the call in
\* flight is aborted and the fetcher is called with a new signal.
Refetch ==
    \E c \in Fetches :
        /\ live
        /\ fetches[c].status = "unused"
        /\ \A d \in Fetches : d < c => fetches[d].status # "unused"
        /\ Len(promises) + 2 <= MaxReducerPromises
        /\ fetches' = [abortCurrent(fetches, current, UNDEFINED)
                         EXCEPT ![c].status = "pending"]
        /\ current' = c
        /\ Surface("fetch", c, <<[type |-> "PEND", payload |-> UNDEFINED]>>,
                   <<>>)
        /\ UNCHANGED live
        /\ UNCHANGED asyncVars

\* abort(reason).
Abort ==
    \E reason \in AbortReasons :
        /\ live
        /\ current # NoFetch
        /\ fetches[current].status = "pending"
        /\ fetches[current].signal = NotAborted
        /\ fetches' = abortCurrent(fetches, current, reason)
        /\ uop' = [kind |-> "abort", call |-> current, dispatched |-> <<>>,
                   callbacks |-> <<>>, before |-> res]
        /\ UNCHANGED <<current, live>>
        /\ UNCHANGED resVars
        /\ UNCHANGED asyncVars

\* mutate(v).
Mutate ==
    /\ live
    /\ Len(promises) + 2 <= MaxReducerPromises
    /\ current' = NoFetch
    /\ Surface("mutate", NoFetch, <<[type |-> "RESOLVE", payload |-> "x"]>>,
               <<>>)
    /\ UNCHANGED <<fetches, live>>
    /\ UNCHANGED asyncVars

\* The component unmounts: the call in flight is aborted.
Teardown ==
    /\ live
    /\ live' = FALSE
    /\ fetches' = abortCurrent(fetches, current, UNDEFINED)
    /\ current' = NoFetch
    /\ uop' = [kind |-> "teardown", call |-> NoFetch, dispatched |-> <<>>,
               callbacks |-> <<>>, before |-> res]
    /\ UNCHANGED resVars
    /\ UNCHANGED asyncVars

\* A fetcher call ends: with a value, with a failure, or, when its signal
\* was aborted and the fetcher listens to it, with the signal's reason.
SettleFetch ==
    \E c \in Fetches :
        /\ fetches[c].status = "pending"
        /\ \/ fetches' = [fetches EXCEPT ![c].status = "fulfilled",
                                         ![c].value = "x"]
           \/ fetches' = [fetches EXCEPT ![c].status = "rejected",
                                         ![c].value = "e"]
           \/ /\ fetches[c].signal # NotAborted
              /\ fetches' = [fetches EXCEPT ![c].status = "rejected",
                                            ![c].value = fetches[c].signal]
        /\ UNCHANGED <<current, live, uop>>
        /\ UNCHANGED resVars
        /\ UNCHANGED asyncVars

\* The hook learns of the settlement of a fetcher call.
HandleFetch ==
    \E c \in Fetches :
        /\ fetches[c].status \in {"fulfilled", "rejected"}
        /\ ~fetches[c].handled
        /\ Len(promises) + 2 <= MaxReducerPromises
        /\ fetches' = [fetches EXCEPT ![c].handled = TRUE]
        /\ LET todo == handleSettlement(fetches[c], live /\ c = current)
           IN  Surface("handle", c, todo.actions, todo.callbacks)
        /\ UNCHANGED <<current, live>>
        /\ UNCHANGED asyncVars

\* ------------------------------------------------------------------------
\* Specifications
\* ------------------------------------------------------------------------

Init ==
    /\ InitResource
    /\ InitAsyncWith(UNDEFINED)
    /\ InitUseResource

Next ==
    \/ CreateResource
    \/ NextResource
    \/ CallAccessor

Spec == Init /\ [][Next]_vars

InitAsync ==
    /\ InitResource
    /\ \E initialValue \in {PROMISE, UNDEFINED, "a"} : InitAsyncWith(initialValue)
    /\ InitUseResource

NextAsync ==
    \/ Mount
    \/ Unmount
    \/ SetValue
    \/ SetPromise
    \/ Settle
    \/ RunHandler

SpecAsync == InitAsync /\ [][NextAsync]_vars

InitReducer ==
    /\ \E initialValue \in {UNDEFINED, "false", "x"} :
            InitReducerWith(initialValue)
    /\ InitAsyncWith(UNDEFINED)
    /\ InitUseResource

NextReducer == Dispatch

SpecReducer == InitReducer /\ [][NextReducer]_vars

\* useResource(fetcher, deps) without an initial value and without skipping.
InitResourceHook ==
    /\ \E initialValue \in {UNDEFINED} : InitReducerWith(initialValue)
    /\ InitAsyncWith(UNDEFINED)
    /\ InitUseResource

NextResourceHook ==
    \/ Refetch
    \/ Abort
    \/ Mutate
    \/ Teardown
    \/ SettleFetch
    \/ HandleFetch

SpecResourceHook == InitResourceHook /\ [][NextResourceHook]_vars

\* ------------------------------------------------------------------------
\* Properties
\* ------------------------------------------------------------------------

Settled(p) == ext[p].status \in {"fulfilled", "rejected"}

\* `state` shows the outcome of the caller's promise p (or, when the
\* onCompleted callback threw, the error it threw).
Reflects(p) ==
    /\ ~state.loading
    /\ \/ /\ ext[p].status = "fulfilled"
          /\ \/ state.result = ext[p].value /\ state.error = NULL
             \/ state.error = THROWN /\ state.result = NULL
       \/ /\ ext[p].status = "rejected"
          /\ state.error = ext[p].value /\ state.result = NULL

\* C1 (race law, last-issued-wins): the settlement of a promise that is no
\* longer the most recently issued one dispatches nothing; whenever the
\* state shows a settlement at all, it is that of the most recently issued
\* promise, whatever the order in which the promises settled.
C1_RaceLaw ==
    /\ (aop.kind = "handler" /\ aop.p # aop.issued) => aop.dispatched = <<>>
    /\ shown \in {NullPrm, lastIssued}
    /\ shown # NullPrm => Reflects(shown)

\* C1's case: the newer call settled first and is shown; then the older call
\* fulfilled with another value and its handler ran.
C1_Witness ==
    /\ aop.kind = "handler"
    /\ aop.issued # NullPrm
    /\ aop.p # aop.issued
    /\ ext[aop.p].status = "fulfilled"
    /\ shown = lastIssued
    /\ ext[lastIssued].status = "fulfilled"
    /\ ext[aop.p].value # ext[lastIssued].value
    /\ state.result = ext[lastIssued].value

Created == res.state # "none"

IsNext == op.kind = "next"

Registered == defaultStorage \cup customStorage

\* C2 (promise-identity law): nextResource returns a snapshot with another
\* promise than its target's if and only if loading went false -> true.
C2_PromiseIdentity ==
    IsNext => ((res.promise # prev.promise) <=> (~prev.loading /\ res.loading))

\* C3: advancing a loading snapshot with {loading: false} and no error
\* resolves the promise the loading snapshot exposed, with the patch's data.
C3_ResolvesExposedPromise ==
    (IsNext /\ prev.loading /\ ~op.loading /\ op.error = UNDEFINED) =>
        /\ promises[prev.promise].status = "resolved"
        /\ promises[prev.promise].value = op.data

\* C4: advancing a loading snapshot with {loading: false} and an error
\* rejects the derived promise (the exposed one or the returned one) with
\* the patch's error as the reason.
C4_RejectsWithError ==
    (IsNext /\ prev.loading /\ ~op.loading /\ op.error # UNDEFINED) =>
        \E p \in {prev.promise, res.promise} :
            /\ promises[p].status = "rejected"
            /\ promises[p].value = op.error

\* C5: latest is sticky: a patch that carries no data leaves latest as it
\* was in the snapshot it is applied to.
C5_LatestSticky ==
    (IsNext /\ op.data = UNDEFINED /\ prev.latest # UNDEFINED) =>
        res.latest = prev.latest

\* The state table of the documentation, "present" meaning "not undefined".
StateTable(data, loading, error) ==
    IF loading THEN (IF data # UNDEFINED THEN "refreshing" ELSE "pending")
    ELSE IF error # UNDEFINED THEN "errored"
    ELSE IF data # UNDEFINED THEN "ready"
    ELSE "unresolved"

\* C6: the state of every snapshot is the one the state table gives for its
\* (data, loading, error), present data being any value but undefined.
C6_StateTable ==
    Created => res.state = StateTable(res.data, res.loading, res.error)

\* C7 (as claimed): data and error are never both present in a snapshot.
C7_NeverBoth ==
    Created => ~(res.data # UNDEFINED /\ res.error # UNDEFINED)

\* C7 (amended): a snapshot holds both data and an error only when the patch
\* that produced it carried both; createResource and patches that carry at
\* most one of the two never produce such a snapshot.
C7_BothOnlyFromPatch ==
    (Created /\ res.data # UNDEFINED /\ res.error # UNDEFINED) =>
        (IsNext /\ op.data # UNDEFINED /\ op.error # UNDEFINED)

\* C7's case: an error-only patch applied to a data-bearing snapshot.
C7_Witness ==
    /\ IsNext
    /\ prev.data # UNDEFINED
    /\ op.data = UNDEFINED
    /\ op.error # UNDEFINED
    /\ res.data = UNDEFINED
    /\ res.error = op.error

\* C8 (idempotence): a nextResource step whose patch equals the fields of
\* the snapshot it is applied to keeps the state and the promise reference
\* and changes neither registry.
C8_Idempotence ==
    [][(op'.kind = "next" /\ op'.data = res.data /\ op'.loading = res.loading
            /\ op'.error = res.error) =>
        /\ res'.state = res.state
        /\ res'.promise = res.promise
        /\ defaultStorage' = defaultStorage
        /\ customStorage' = customStorage]_vars

\* C9: a promise that a transition has resolved or rejected has no entry
\* left in any registry.
C9_SettledNotRegistered ==
    \A p \in 1 .. Len(promises) :
        promises[p].calls > 0 => p \notin Registered

\* C9's case: one promise resolved and one rejected through their controls.
C9_Witness ==
    \E p, q \in 1 .. Len(promises) :
        /\ promises[p].status = "resolved" /\ promises[p].calls = 1
        /\ promises[q].status = "rejected" /\ promises[q].calls = 1

\* C10: over any sequence of createResource / nextResource calls, the
\* controls of one promise are invoked at most once.
C10_SettledAtMostOnce ==
    \A p \in 1 .. Len(promises) : promises[p].calls <= 1

\* C10's case: a promise settled through its controls is reused by a later
\* update that keeps loading false.
C10_Witness ==
    /\ IsNext
    /\ res.promise = prev.promise
    /\ ~res.loading
    /\ promises[res.promise].calls = 1

\* ---- useResourceReducer ----

Dispatched(type) == op.kind = "dispatch" /\ op.type = type

C12_InvalidActionThrows ==
    Dispatched("FAKE") =>
        /\ op.thrown = InvalidActionType
        /\ res = prev

C12_Witness ==
    /\ Dispatched("FAKE")
    /\ op.thrown = InvalidActionType
    /\ res.state = "ready"

\* C13: a reducer started without an initial value shows loading = true,
\* no data, no error, no latest and the state "pending" from its first
\* snapshot until an action settles it.
C13_PendingUntilSettled ==
    op.initial = UNDEFINED /\ ~op.settled =>
        /\ res.loading
        /\ res.data = UNDEFINED
        /\ res.error = UNDEFINED
        /\ res.latest = UNDEFINED
        /\ res.state = "pending"

\* C13 as stated: such a reducer never shows the state "unresolved".
C13_NeverUnresolved ==
    op.initial = UNDEFINED => res.state # "unresolved"

C13_Witness ==
    /\ op.initial = UNDEFINED
    /\ ~op.settled
    /\ Dispatched("PEND")
    /\ res.state = "pending"

\* ---- nextResource: entering loading, landing a rejection ----

\* C14: from a ready snapshot with data x, a patch that sets loading and
\* carries x gives the state "refreshing" with latest = x; a patch that sets
\* loading and carries no data gives the state "pending".
C14_LoadingFromReady ==
    IsNext /\ prev.state = "ready" /\ op.loading =>
        /\ op.data = prev.data =>
                res.state = "refreshing" /\ res.latest = prev.data
        /\ op.data = UNDEFINED => res.state = "pending"

\* C14 as stated: the patch {loading: true} on a ready snapshot with data x
\* gives "refreshing" with latest = x.
C14_RefreshingOnBareLoading ==
    IsNext /\ prev.state = "ready" /\ op.loading
           /\ op.data = UNDEFINED /\ op.error = UNDEFINED =>
        res.state = "refreshing" /\ res.latest = prev.data

C14_Witness ==
    /\ IsNext
    /\ prev.state = "ready"
    /\ op.loading
    /\ op.data = prev.data
    /\ res.state = "refreshing"
    /\ res.latest = "x"

Handled == aop.kind = "handler"

\* C16: when the promise most recently given to a mounted hook rejects with a
\* non-nullish reason r, the hook dispatches ERROR with exactly r and calls
\* onError(r); when a promise that is no longer the most recent one settles,
\* neither onCompleted nor onError is called.
C16_RejectionAndStale ==
    Handled =>
        /\ ( /\ phase = "mounted"
             /\ aop.p = aop.issued
             /\ ext[aop.p].status = "rejected"
             /\ ~Nullish(ext[aop.p].value) ) =>
                /\ aop.dispatched = <<[type |-> "ERROR",
                                       payload |-> ext[aop.p].value]>>
                /\ aop.callbacks = <<[name |-> "onError",
                                      arg |-> ext[aop.p].value]>>
                /\ state.error = ext[aop.p].value
        /\ aop.p # aop.issued => aop.callbacks = <<>>

C16_Witness ==
    /\ Handled
    /\ phase = "mounted"
    /\ aop.p = aop.issued
    /\ ext[aop.p].status = "rejected"
    /\ ext[aop.p].value = "e"
    /\ aop.callbacks = <<[name |-> "onError", arg |-> "e"]>>
    /\ \E q \in Calls : q # aop.p /\ Settled(q)

\* C17: a promise that settles after the hook was unmounted (set() not being
\* called since) dispatches nothing and calls no callback.
C17_UnmountDiscards ==
    Handled /\ aop.quiet =>
        /\ aop.dispatched = <<>>
        /\ aop.callbacks = <<>>

C17_Witness ==
    /\ Handled
    /\ aop.quiet
    /\ aop.p = aop.issued
    /\ ext[aop.p].status = "fulfilled"
    /\ state.loading
    /\ aop.dispatched = <<>>

\* C18: on an unmounted hook no operation dispatches anything: neither the
\* unmount itself, nor set(), nor the settlement of a promise.
C18_NoDispatchAfterUnmount ==
    phase = "unmounted" => aop.dispatched = <<>>

\* C19: on a mounted hook, a promise that settles right after set() was given
\* a plain value dispatches nothing and calls no callback.
C19_SyncSetDiscards ==
    [][phase = "mounted" /\ aop.kind = "set" /\ aop.p = NullPrm
                        /\ aop'.kind = "handler" =>
          aop'.dispatched = <<>> /\ aop'.callbacks = <<>>]_vars

\* ---- useResource: aborted calls ----

\* The last operation handled the rejection, with the abort reason, of a call
\* whose signal was aborted with an AbortError.
AbortedCallRejected ==
    /\ uop.kind = "handle"
    /\ fetches[uop.call].status = "rejected"
    /\ fetches[uop.call].signal = ABORT_ERROR
    /\ fetches[uop.call].value = ABORT_ERROR

\* C20: when a call aborted without a reason or with an AbortError (by
\* abort(), by a newer call or by the unmount) rejects with that AbortError,
\* the resource stays as it was (so it does not become errored and its error
\* is not updated), nothing is dispatched and onError is not called.
C20_CancellationLaw ==
    AbortedCallRejected =>
        /\ res = uop.before
        /\ uop.dispatched = <<>>
        /\ uop.callbacks = <<>>

C20_Witness ==
    /\ AbortedCallRejected
    /\ live
    /\ uop.call = current
    /\ res.loading
    /\ res.error = UNDEFINED
    /\ uop.callbacks = <<>>

\* ---- Resource.ts: the accessor ----

Called == got.what # "none"

\* C21: calling a loading resource (pending or refreshing) never returns: it
\* throws the promise held in the snapshot's promise field.
C21_LoadingThrowsPromise ==
    Called /\ res.state \in {"pending", "refreshing"} =>
        /\ got.what = "throws promise"
        /\ got.promise = res.promise

C21_Witness ==
    /\ Called
    /\ res.state = "refreshing"
    /\ res.error = "x"
    /\ got.what = "throws promise"
    /\ got.promise = res.promise

\* C22: calling an errored resource throws the snapshot's error, whatever
\* the error value is; it never returns.
C22_ErroredThrowsError ==
    Called /\ res.state = "errored" =>
        /\ got.what = "throws error"
        /\ got.value = res.error

\* ---- Resource.ts: registries and promises ----

\* The step is a call of createResource / nextResource.
CreateStep == op'.kind = "create" /\ got' = NoCall
NextStep == op'.kind = "next" /\ got' = NoCall

\* The registry handed to the call.
Supplied == IF op.storage = "default" THEN defaultStorage ELSE customStorage

\* C23: createResource and nextResource called with a registry of the
\* caller's leave the default registry unchanged.
C23_RegistryIsolation ==
    [][(CreateStep \/ NextStep) /\ op'.storage = "custom" =>
          defaultStorage' = defaultStorage]_vars

\* C24: createResource(v) of a defined value v that is not a promise gives
\* state "ready", loading = false and a promise already resolved with v;
\* createResource(promise) gives state "pending", loading = true.
C24_CreateResource ==
    op.kind = "create" =>
        /\ op.data \notin {UNDEFINED, PROMISE} =>
                /\ res.state = "ready"
                /\ ~res.loading
                /\ promises[res.promise].status = "resolved"
                /\ promises[res.promise].value = op.data
        /\ op.data = PROMISE =>
                /\ res.state = "pending"
                /\ res.loading

\* C25: nextResource on a loading snapshot with a patch that keeps loading
\* and changes whether data is there returns another promise and rejects
\* the target's.
C25_LoadingKindChangeRenews ==
    ( /\ IsNext
      /\ prev.loading
      /\ op.loading
      /\ (prev.data = UNDEFINED) # (op.data = UNDEFINED) ) =>
        /\ res.promise # prev.promise
        /\ promises[prev.promise].status = "rejected"

\* C26: nextResource on a snapshot that is not loading and whose promise is
\* pending, with a patch that keeps loading = false, settles the promise of
\* the snapshot it returns: resolved with the patch's data, or rejected with
\* the patch's error if there is one.
C26_SyncUpdateSettles ==
    [][( /\ NextStep
         /\ ~res.loading
         /\ ~op'.loading
         /\ promises[res.promise].status = "pending" ) =>
          IF op'.error # UNDEFINED
          THEN /\ promises'[res'.promise].status = "rejected"
               /\ promises'[res'.promise].value = op'.error
          ELSE /\ promises'[res'.promise].status = "resolved"
               /\ promises'[res'.promise].value = op'.data]_vars

\* C27: nextResource from loading = false to loading = true removes the
\* target's promise from the registry and leaves that promise as it was.
C27_EnteringLoadingUnregisters ==
    [][NextStep /\ ~res.loading /\ op'.loading =>
          /\ res.promise \notin defaultStorage' \cup customStorage'
          /\ promises'[res.promise] = promises[res.promise]]_vars

C29_StateIsClassified ==
    Created => res.state = getResourceStateByData(res)

C29_Witness ==
    /\ IsNext
    /\ prev.state = "ready"
    /\ res.state = "errored"
    /\ res.state = getResourceStateByData(res)

\* C30: nextResource leaves its target as it was: after the call the
\* target's data, loading, error, latest, state and promise are unchanged.
C30_TargetUntouched ==
    [][NextStep => prev' = res]_vars

C30_Witness ==
    /\ IsNext
    /\ prev.state = "refreshing"
    /\ prev.latest = "x"
    /\ res.state = "unresolved"
    /\ res.promise # prev.promise
    /\ prev.promise \in Registered

\* ---- Resource.ts: registry size, latest ----

\* C31: a nextResource call adds no registry entry except, at most, one for
\* the promise of the snapshot it returns; so the entries of one resource do
\* not pile up with the patches applied to it.
C31_RegistryBounded ==
    [][NextStep =>
          (defaultStorage' \cup customStorage') \ (defaultStorage \cup customStorage)
              \subseteq {res'.promise}]_vars

\* C33: in every snapshot whose data is neither null nor undefined, latest
\* equals data; so does the snapshot createResource makes of a value.
C33_LatestFollowsData ==
    Created /\ ~Nullish(res.data) => res.latest = res.data

\* ---- useAsyncState: one dispatch per settlement ----

\* C32: when the promise most recently given to a mounted hook settles, the
\* hook dispatches exactly once, and what its settlement was: RESULT and
\* onCompleted for a fulfilment, ERROR and onError for a rejection; a
\* fulfilment never brings ERROR or onError, even if onCompleted throws.
C32_OneMatchingDispatch ==
    Handled /\ phase = "mounted" /\ aop.p = aop.issued =>
        IF ext[aop.p].status = "fulfilled"
        THEN /\ aop.dispatched = <<[type |-> "RESULT",
                                    payload |-> ext[aop.p].value]>>
             /\ aop.callbacks = <<[name |-> "onCompleted",
                                   arg |-> ext[aop.p].value]>>
        ELSE /\ aop.dispatched = <<[type |-> "ERROR",
                                    payload |-> ext[aop.p].value]>>
             /\ aop.callbacks = <<[name |-> "onError",
                                   arg |-> ext[aop.p].value]>>

====
